---- MODULE Spec2Model ----
(***************************************************************************)
(* Model of nori-tests' ContainerManager (src/src/docker/container.ts):    *)
(* one call of runCommand (buffered) or runCommandStreaming (streaming)    *)
(* against the container runtime, the stream demultiplexer that delivers   *)
(* 'data' events on the stdout and stderr sinks, and, in streaming mode,   *)
(* the consumer that pulls chunks out of the async generator (Spec, and    *)
(* FairSpec with the fairness of settled operations; AbandonSpec with a    *)
(* consumer that may stop iterating before the end); of runTests           *)
(* (src/src/runner/test-runner.ts), which runs one runCommand per          *)
(* discovered test file and reads the status file it leaves, called by a   *)
(* program or by the command line handler of src/src/index.ts              *)
(* (RunnerSpec); and of one call of a utility: parseStatusFile,            *)
(* getAuthMethod, getAuthConfig, ContainerManager.pullImage, or the        *)
(* processChunk calls on one StreamFormatter (UtilSpec).                   *)
(*                                                                         *)
(* JavaScript values: undefined and null are the tokens "undefined" and    *)
(* "null"; strings produced by Buffer.toString() are sequences of code     *)
(* points; a Buffer is a sequence of bytes.                                *)
(***************************************************************************)
EXTENDS Integers, Sequences, FiniteSets, TLC

\* ---------------------------------------------------------------- bounds
\* number of 'data' events the demultiplexer delivers during one call
MaxEvents == 3

\* ---------------------------------------------------------------- inputs
\* options.keepContainer?: boolean
KeepValues == {"undefined", "false", "true"}

\* options.sessionFileToCopy?: string | null
SessionValues == {"undefined", "null", "", "/host/.claude.json"}

\* options.mounts?: MountConfig[] (an omitted list and an empty one build
\* the same binds)
MountValues ==
    { <<>>,
      <<[hostPath |-> "/host/data", containerPath |-> "/data", readOnly |-> "true"]>> }

\* options.privileged?: boolean, as tests/unit/container-options.test.ts
\* passes it
PrivilegedValues == {"undefined", "true"}

\* status codes the guarded process may exit with
ExitCodes == {0, 42}

\* payloads written to the stdout sink: "A", and the two bytes of U+00E9
\* arriving in separate events
StdoutPayloads == {<<65>>, <<195>>, <<169>>}

\* payloads written to the stderr sink: "B"
StderrPayloads == {<<66>>}

\* containers of other runs already listed by the runtime
PreExisting == {0}

\* if (x) ... on a JavaScript value
Truthy(v) == v \notin {"undefined", "null", "false", ""}

\* chunk.toString(): UTF-8 decoding of one Buffer, by itself
RECURSIVE toString(_)
toString(bytes) ==
    IF bytes = <<>> THEN <<>>
    ELSE LET b == Head(bytes)
             rest == Tail(bytes)
         IN  IF b < 128 THEN <<b>> \o toString(rest)
             ELSE IF b >= 194 /\ b <= 223 /\ rest # <<>>
                     /\ Head(rest) >= 128 /\ Head(rest) <= 191
                  THEN <<(b - 192) * 64 + (Head(rest) - 128)>> \o toString(Tail(rest))
                  ELSE <<65533>> \o toString(rest)

VARIABLES
    mode,           \* "buffered" (runCommand) or "streaming" (runCommandStreaming)
    config,         \* <<>> or <<the options given to docker.createContainer>>
    options,        \* [keepContainer, sessionFileToCopy]
    pc,             \* position of the call
    thrown,         \* the operation whose error the call threw, "" if none
    ops,            \* runtime operations issued by the call, in order
    runtime,        \* ids of the containers the runtime lists
    created,        \* ids of the containers created by this call
    procState,      \* "notstarted", "running", "exited"
    exitStatus,     \* <<>> or <<the code the process exited with>>
    attached,       \* listeners wired to the demultiplexer's two sinks
    delivered,      \* 'data' events delivered so far: [sink, bytes]
    stdout,         \* buffered mode: let stdout
    stderr,         \* buffered mode: let stderr
    chunkQueue,     \* streaming mode: const chunkQueue
    resolveWaiting, \* streaming mode: resolveWaiting !== null
    streamEnded,    \* streaming mode: let streamEnded
    waitPromise,    \* "none", "pending", "fulfilled", "rejected"
    waitResult,     \* <<>> or <<[StatusCode |-> c]>>
    yielded,        \* streaming mode: chunks handed to the consumer, in order
    removeOutcome,  \* "none", "ok", "failed"
    result          \* <<>> or <<the value the call returned>>

\* state of runTests (src/src/runner/test-runner.ts) and of the working
\* directory it shares with the containers of its tests
VARIABLES
    nTests,         \* testFiles.length: the discovered files are 1..nTests
    ropts,          \* [dryRun, keepContainers] of TestRunnerOptions
    rpc,            \* position of runTests
    idx,            \* the loop index i of runTests, from 1
    exec,           \* per test: where its runSingleTest / runCommand stands
    callError,      \* per test: the error its execution threw, "" if none
    rcontainers,    \* tests whose container the runtime lists
    statusFile,     \* content of <workDir>/.nori-test-status.json, or Absent
    statusBy,       \* the test whose container wrote statusFile, 0 if none
    seen,           \* per test: what runSingleTest found at the status path
    promptFile,     \* <workDir>/.nori-test-prompt.md exists
    results,        \* const results: TestResult[]
    report,         \* <<>> or <<the TestReport runTests returned>>
    cwd,            \* process.cwd() of the run
    runOptions,     \* per test: <<>> or <<the options handed to runCommand>>
    cli,            \* the command line handler of src/src/index.ts: whether it
                    \* made the run, and the error that ended it, "" if none
    exitCode        \* <<>> or <<the code given to process.exit>>

\* one call of a utility: parseStatusFile (src/src/utils/status-file.ts),
\* getAuthMethod or getAuthConfig (src/src/utils/auth.ts), or
\* ContainerManager.pullImage (src/src/docker/container.ts), or the use of
\* one StreamFormatter (src/src/utils/stream-formatter.ts)
VARIABLES
    fn,             \* the utility called, "none" if none
    arg,            \* its argument and the environment it reads
    ret,            \* <<>> or <<what it returned or threw>>
    pullSignals,    \* pullImage: what the runtime has signalled, in order
    promise,        \* pullImage: "none", "pending", "resolved", "rejected"
    settleCalls,    \* pullImage: calls of resolve or reject so far
    buffer,         \* StreamFormatter: private buffer: string
    inputs,         \* StreamFormatter: the data of the processChunk calls so far
    outputs         \* StreamFormatter: what each of those calls returned

callVars == <<mode, options, config, pc, thrown, ops, runtime, created, procState,
              exitStatus, attached, delivered, stdout, stderr, chunkQueue,
              resolveWaiting, streamEnded, waitPromise, waitResult, yielded,
              removeOutcome, result>>

runnerVars == <<nTests, ropts, rpc, idx, exec, callError, rcontainers, statusFile,
                statusBy, seen, promptFile, results, report, cwd, runOptions,
                cli, exitCode>>

utilVars == <<fn, arg, ret, pullSignals, promise, settleCalls, buffer, inputs,
              outputs>>

vars == <<callVars, runnerVars, utilVars>>

Issued(op) == \E i \in 1..Len(ops) : ops[i] = op

Position(op) == CHOOSE i \in 1..Len(ops) : ops[i] = op

\* number of test files discovered in one run
MaxTests == 2

Tests == 1..MaxTests

\* a property that a JSON object does not have
Undefined == [t |-> "undefined", v |-> ""]

\* no file at the status path
Absent == [pad |-> "none", json |-> "absent", status |-> Undefined, error |-> Undefined]

\* runSingleTest has not looked at the status path
Unchecked == [pad |-> "none", json |-> "unchecked", status |-> Undefined, error |-> Undefined]

\* runTests called by a program, not by the command line handler
NoCli == [entry |-> "api", error |-> ""]

\* runTests is not running
RunnerIdle ==
    /\ nTests = 0
    /\ ropts = [dryRun |-> FALSE, keepContainers |-> "undefined"]
    /\ rpc = "unused"
    /\ idx = 1
    /\ exec = [t \in Tests |-> "notStarted"]
    /\ callError = [t \in Tests |-> ""]
    /\ rcontainers = {}
    /\ statusFile = Absent
    /\ statusBy = 0
    /\ seen = [t \in Tests |-> Unchecked]
    /\ promptFile = FALSE
    /\ results = <<>>
    /\ report = <<>>
    /\ cwd = "/workspace"
    /\ runOptions = [t \in Tests |-> <<>>]
    /\ cli = NoCli
    /\ exitCode = <<>>

\* no utility is called
UtilIdle ==
    /\ fn = "none"
    /\ arg = <<>>
    /\ ret = <<>>
    /\ pullSignals = <<>>
    /\ promise = "none"
    /\ settleCalls = 0
    /\ buffer = <<>>
    /\ inputs = <<>>
    /\ outputs = <<>>

Init ==
    /\ RunnerIdle
    /\ UtilIdle
    /\ mode \in {"buffered", "streaming"}
    /\ options \in [keepContainer : KeepValues, sessionFileToCopy : SessionValues,
                     mounts : MountValues, privileged : PrivilegedValues]
    /\ config = <<>>
    /\ pc = "create"
    /\ thrown = ""
    /\ ops = <<>>
    /\ runtime = PreExisting
    /\ created = {}
    /\ procState = "notstarted"
    /\ exitStatus = <<>>
    /\ attached = FALSE
    /\ delivered = <<>>
    /\ stdout = <<>>
    /\ stderr = <<>>
    /\ chunkQueue = <<>>
    /\ resolveWaiting = FALSE
    /\ streamEnded = FALSE
    /\ waitPromise = "none"
    /\ waitResult = <<>>
    /\ yielded = <<>>
    /\ removeOutcome = "none"
    /\ result = <<>>

\* an awaited runtime operation rejected: the error leaves the call
Throw(op) ==
    /\ pc' = "threw"
    /\ thrown' = op

\* ------------------------------------------------- pieces of the two calls
\* a call that never injects the session file
AfterCreateNoInject(o) == "attach"

\* if (options.sessionFileToCopy) after createContainer
AfterCreate(o) == IF Truthy(o.sessionFileToCopy) THEN "execCreate" ELSE "attach"

\* a call that never removes its container
ShouldRemoveNever(o) == FALSE

\* a call that removes its container whatever keepContainer says
ShouldRemoveAlways(o) == TRUE

\* if (!options.keepContainer)
ShouldRemove(o) == ~Truthy(o.keepContainer)

\* stdoutStream.on('data') of runCommandStreaming: the chunk pushed
StdoutChunk(bytes) == [type |-> "stdout", data |-> toString(bytes)]

\* a stderr listener that tags its chunks stdout
StderrChunkAsStdout(bytes) == [type |-> "stdout", data |-> toString(bytes)]

\* stderrStream.on('data') of runCommandStreaming: the chunk pushed
StderrChunk(bytes) == [type |-> "stderr", data |-> toString(bytes)]

\* the chunk runCommandStreaming pushes for one delivered event
ChunkOf(ev) == IF ev.sink = "stdout" THEN StdoutChunk(ev.bytes) ELSE StderrChunk(ev.bytes)

\* stdoutStream.on('data') of runCommand: stdout += chunk.toString()
StdoutOnData(out, ev) == IF ev.sink = "stdout" THEN out \o toString(ev.bytes) ELSE out

\* stderrStream.on('data') of runCommand: stderr += chunk.toString()
StderrOnData(err, ev) == IF ev.sink = "stderr" THEN err \o toString(ev.bytes) ELSE err

\* a result that reports success whatever the wait returned
CommandResultZero(wr, out, err) == [exitCode |-> 0, stdout |-> out, stderr |-> err]

\* return { exitCode: waitResult.StatusCode, stdout, stderr }
CommandResult(wr, out, err) == [exitCode |-> wr.StatusCode, stdout |-> out, stderr |-> err]

\* a sequence that returns the number of chunks it yielded
StreamingReturnCount(wr) == Len(yielded)

\* return waitResult.StatusCode
StreamingReturn(wr) == wr.StatusCode

\* the bind string `${mount.hostPath}:${mount.containerPath}:${mode}`, as
\* its three parts
BindOf(mount) ==
    <<mount.hostPath, mount.containerPath, IF Truthy(mount.readOnly) THEN "ro" ELSE "rw">>

\* the bind string '/var/run/docker.sock:/var/run/docker.sock', as its parts
DockerSocketBind == <<"/var/run/docker.sock", "/var/run/docker.sock">>

\* const binds = ['/var/run/docker.sock:/var/run/docker.sock'];
\* for (const mount of options.mounts) binds.push(...)
Binds(o) == <<DockerSocketBind>> \o [k \in 1..Len(o.mounts) |-> BindOf(o.mounts[k])]

\* the object runCommand and runCommandStreaming hand to
\* docker.createContainer: HostConfig has the keys Binds and AutoRemove
createContainerOptions(o) ==
    [User |-> "1000:dockerGid",
     HostConfig |-> [Binds |-> Binds(o), AutoRemove |-> FALSE]]

\* ------------------------------------------------------------ setup steps
\* a call that goes on after createContainer rejected
CreateContainerIgnoresFailure ==
    /\ pc = "create"
    /\ ops' = Append(ops, "create")
    /\ \E ok \in BOOLEAN :
         IF ok
         THEN LET id == Cardinality(runtime) IN
              /\ runtime' = runtime \cup {id}
              /\ created' = created \cup {id}
         ELSE UNCHANGED <<runtime, created>>
    /\ pc' = AfterCreate(options)
    /\ config' = <<createContainerOptions(options)>>
    /\ UNCHANGED <<mode, options, thrown, procState, exitStatus, attached, delivered,
                   stdout, stderr, chunkQueue, resolveWaiting, streamEnded,
                   waitPromise, waitResult, yielded, removeOutcome, result>>
    /\ UNCHANGED <<runnerVars, utilVars>>

\* await this.docker.createContainer({...})
CreateContainer ==
    /\ pc = "create"
    /\ ops' = Append(ops, "create")
    /\ \E ok \in BOOLEAN :
         IF ok
         THEN LET id == Cardinality(runtime) IN
              /\ runtime' = runtime \cup {id}
              /\ created' = created \cup {id}
              /\ pc' = AfterCreate(options)
              /\ UNCHANGED thrown
         ELSE /\ Throw("create")
              /\ UNCHANGED <<runtime, created>>
    /\ config' = <<createContainerOptions(options)>>
    /\ UNCHANGED <<mode, options, procState, exitStatus, attached, delivered,
                   stdout, stderr, chunkQueue, resolveWaiting, streamEnded,
                   waitPromise, waitResult, yielded, removeOutcome, result>>
    /\ UNCHANGED <<runnerVars, utilVars>>

\* await container.exec({ Cmd: ['mkdir', '-p', '/home/node/.claude'], ... })
ExecCreate ==
    /\ pc = "execCreate"
    /\ ops' = Append(ops, "exec")
    /\ \E ok \in BOOLEAN :
         IF ok THEN pc' = "execStart" /\ UNCHANGED thrown
               ELSE Throw("exec")
    /\ UNCHANGED <<mode, options, config, runtime, created, procState, exitStatus,
                   attached, delivered, stdout, stderr, chunkQueue,
                   resolveWaiting, streamEnded, waitPromise, waitResult,
                   yielded, removeOutcome, result>>
    /\ UNCHANGED <<runnerVars, utilVars>>

\* await execCreate.start({ Detach: false })
ExecStart ==
    /\ pc = "execStart"
    /\ ops' = Append(ops, "execStart")
    /\ \E ok \in BOOLEAN :
         IF ok THEN pc' = "copyFile" /\ UNCHANGED thrown
               ELSE Throw("execStart")
    /\ UNCHANGED <<mode, options, config, runtime, created, procState, exitStatus,
                   attached, delivered, stdout, stderr, chunkQueue,
                   resolveWaiting, streamEnded, waitPromise, waitResult,
                   yielded, removeOutcome, result>>
    /\ UNCHANGED <<runnerVars, utilVars>>

\* await copyFileToContainer(container, options.sessionFileToCopy, ...):
\* fs.readFileSync may throw before anything is sent; otherwise the archive
\* is written with container.putArchive, which may reject
copyFileToContainer ==
    /\ pc = "copyFile"
    /\ \E outcome \in {"ok", "readFailed", "putFailed"} :
         /\ ops' = IF outcome = "readFailed" THEN ops ELSE Append(ops, "putArchive")
         /\ IF outcome = "ok" THEN pc' = "attach" /\ UNCHANGED thrown
            ELSE Throw(IF outcome = "readFailed" THEN "readFile" ELSE "putArchive")
    /\ UNCHANGED <<mode, options, config, runtime, created, procState, exitStatus,
                   attached, delivered, stdout, stderr, chunkQueue,
                   resolveWaiting, streamEnded, waitPromise, waitResult,
                   yielded, removeOutcome, result>>
    /\ UNCHANGED <<runnerVars, utilVars>>

\* an attach whose listeners are not wired before the start
AttachWithoutListeners ==
    /\ pc = "attach"
    /\ ops' = Append(ops, "attach")
    /\ \E ok \in BOOLEAN :
         IF ok THEN pc' = "start" /\ UNCHANGED thrown
               ELSE Throw("attach")
    /\ UNCHANGED <<mode, options, config, runtime, created, procState, exitStatus,
                   attached, delivered, stdout, stderr, chunkQueue,
                   resolveWaiting, streamEnded, waitPromise, waitResult,
                   yielded, removeOutcome, result>>
    /\ UNCHANGED <<runnerVars, utilVars>>

\* await container.attach({...}); the listeners and demuxStream follow
\* synchronously
Attach ==
    /\ pc = "attach"
    /\ ops' = Append(ops, "attach")
    /\ \E ok \in BOOLEAN :
         IF ok THEN pc' = "start" /\ attached' = TRUE /\ UNCHANGED thrown
               ELSE Throw("attach") /\ UNCHANGED attached
    /\ UNCHANGED <<mode, options, config, runtime, created, procState, exitStatus,
                   delivered, stdout, stderr, chunkQueue, resolveWaiting,
                   streamEnded, waitPromise, waitResult, yielded,
                   removeOutcome, result>>
    /\ UNCHANGED <<runnerVars, utilVars>>

\* container.start() is issued: the runtime starts the process or rejects
StartContainer ==
    /\ pc = "start"
    /\ ops' = Append(ops, "start")
    /\ \E ok \in BOOLEAN :
         IF ok THEN pc' = "started" /\ procState' = "running" /\ UNCHANGED thrown
               ELSE Throw("start") /\ UNCHANGED procState
    /\ UNCHANGED <<mode, options, config, runtime, created, exitStatus, attached,
                   delivered, stdout, stderr, chunkQueue, resolveWaiting,
                   streamEnded, waitPromise, waitResult, yielded,
                   removeOutcome, result>>
    /\ UNCHANGED <<runnerVars, utilVars>>

\* ------------------------------------------------------- the running call
\* a wake that leaves the resolver in the slot
WakeKeepsSlot ==
    IF resolveWaiting
    THEN pc' = "resumed" /\ UNCHANGED resolveWaiting
    ELSE UNCHANGED <<pc, resolveWaiting>>

\* listeners that never call the resolver
WakeNever == UNCHANGED <<pc, resolveWaiting>>

\* if (resolveWaiting) { resolveWaiting(); resolveWaiting = null; }: the
\* suspended generator is scheduled to resume
Wake ==
    IF resolveWaiting
    THEN pc' = "resumed" /\ resolveWaiting' = FALSE
    ELSE UNCHANGED <<pc, resolveWaiting>>

\* a generator that hands out the newest chunk: chunkQueue.pop()
YieldChunkLast(opsNow) ==
    /\ yielded' = Append(yielded, chunkQueue[Len(chunkQueue)])
    /\ chunkQueue' = SubSeq(chunkQueue, 1, Len(chunkQueue) - 1)
    /\ pc' = "yield"
    /\ ops' = opsNow
    /\ UNCHANGED <<resolveWaiting, result>>

\* yield chunkQueue.shift()!
YieldChunk(opsNow) ==
    /\ yielded' = Append(yielded, Head(chunkQueue))
    /\ chunkQueue' = Tail(chunkQueue)
    /\ pc' = "yield"
    /\ ops' = opsNow
    /\ UNCHANGED <<resolveWaiting, result>>

\* await new Promise<void>((resolve) => { resolveWaiting = resolve; })
AwaitChunk(opsNow) ==
    /\ resolveWaiting' = TRUE
    /\ pc' = "suspended"
    /\ ops' = opsNow
    /\ UNCHANGED <<chunkQueue, yielded, result>>

\* a generator that removes its container whatever keepContainer says
LeaveLoopAlwaysRemoves(opsNow) ==
    /\ ops' = Append(opsNow, "remove")
    /\ pc' = "removing"
    /\ UNCHANGED <<chunkQueue, yielded, resolveWaiting, result>>

\* the loop is left: const waitResult = await waitPromise; then the
\* container is removed unless kept, otherwise the status code is returned
LeaveLoop(opsNow) ==
    IF ShouldRemove(options)
    THEN /\ ops' = Append(opsNow, "remove")
         /\ pc' = "removing"
         /\ UNCHANGED <<chunkQueue, yielded, resolveWaiting, result>>
    ELSE /\ result' = <<StreamingReturn(waitResult[1])>>
         /\ pc' = "done"
         /\ ops' = opsNow
         /\ UNCHANGED <<chunkQueue, yielded, resolveWaiting>>

\* a loop that leaves as soon as the exit is reported, queued chunks or not
LoopBodyEndsOnExit(opsNow) ==
    IF streamEnded THEN LeaveLoop(opsNow)
    ELSE IF chunkQueue # <<>> THEN YieldChunk(opsNow)
    ELSE AwaitChunk(opsNow)

\* a loop that hands chunks out only once the exit is reported
LoopBodyAfterExit(opsNow) ==
    IF ~streamEnded THEN AwaitChunk(opsNow)
    ELSE IF chunkQueue # <<>> THEN YieldChunk(opsNow)
    ELSE LeaveLoop(opsNow)

\* one pass of the generator from the loop test to its next suspension:
\*   while (!streamEnded || chunkQueue.length > 0) {
\*     if (chunkQueue.length > 0) { yield ... } else if (!streamEnded) { await ... }
\*   }
\* opsNow is the operation log at the time the pass begins
LoopBody(opsNow) ==
    IF chunkQueue # <<>> THEN YieldChunk(opsNow)
    ELSE IF ~streamEnded THEN AwaitChunk(opsNow)
    ELSE LeaveLoop(opsNow)

\* await container.start() resolves; container.wait() is issued next.
\* runCommand awaits it; runCommandStreaming chains .then(...) on it and
\* enters the loop
AfterStart ==
    /\ pc = "started"
    /\ waitPromise' = "pending"
    /\ IF mode = "buffered"
       THEN /\ ops' = Append(ops, "wait")
            /\ pc' = "wait"
            /\ UNCHANGED <<chunkQueue, yielded, resolveWaiting, result>>
       ELSE LoopBody(Append(ops, "wait"))
    /\ UNCHANGED <<mode, options, config, thrown, runtime, created, procState,
                   exitStatus, attached, delivered, stdout, stderr,
                   streamEnded, waitResult, removeOutcome>>
    /\ UNCHANGED <<runnerVars, utilVars>>

\* the guarded process exits with some status code
ProcessExit ==
    /\ procState = "running"
    /\ \E code \in ExitCodes : exitStatus' = <<code>>
    /\ procState' = "exited"
    /\ UNCHANGED <<mode, options, config, pc, thrown, ops, runtime, created, attached,
                   delivered, stdout, stderr, chunkQueue, resolveWaiting,
                   streamEnded, waitPromise, waitResult, yielded,
                   removeOutcome, result>>
    /\ UNCHANGED <<runnerVars, utilVars>>

\* the demultiplexer emits 'data' on one of the two PassThrough sinks; the
\* attach stream may still deliver after the runtime has reported the exit
DataEvent ==
    /\ procState \in {"running", "exited"}
    /\ pc \notin {"done", "threw", "crashed"}
    /\ Len(delivered) < MaxEvents
    /\ \E ev \in [sink : {"stdout"}, bytes : StdoutPayloads]
                 \cup [sink : {"stderr"}, bytes : StderrPayloads] :
         /\ delivered' = Append(delivered, ev)
         /\ IF mode = "buffered"
            THEN /\ stdout' = StdoutOnData(stdout, ev)
                 /\ stderr' = StderrOnData(stderr, ev)
                 /\ UNCHANGED <<chunkQueue, pc, resolveWaiting>>
            ELSE /\ chunkQueue' = Append(chunkQueue, ChunkOf(ev))
                 /\ Wake
                 /\ UNCHANGED <<stdout, stderr>>
    /\ UNCHANGED <<mode, options, config, thrown, ops, runtime, created, procState,
                   exitStatus, attached, streamEnded, waitPromise, waitResult,
                   yielded, removeOutcome, result>>
    /\ UNCHANGED <<runnerVars, utilVars>>

\* container.wait() resolves with the status code of the exited process.
\* runCommand continues to the flush delay; in runCommandStreaming the
\* .then callback sets streamEnded and wakes a suspended generator
WaitResolved ==
    /\ waitPromise = "pending"
    /\ procState = "exited"
    /\ pc # "threw"
    /\ waitPromise' = "fulfilled"
    /\ waitResult' = <<[StatusCode |-> exitStatus[1]]>>
    /\ IF mode = "buffered"
       THEN /\ pc' = "flush"
            /\ UNCHANGED <<streamEnded, resolveWaiting>>
       ELSE /\ streamEnded' = TRUE
            /\ Wake
    /\ UNCHANGED <<mode, options, config, thrown, ops, runtime, created, procState,
                   exitStatus, attached, delivered, stdout, stderr,
                   chunkQueue, yielded, removeOutcome, result>>
    /\ UNCHANGED <<runnerVars, utilVars>>

\* container.wait() rejects with a runtime error. runCommand throws it; in
\* runCommandStreaming the .then callback does not run and the rejection of
\* waitPromise has no handler: depending on how the Node process treats
\* unhandled rejections the generator is left as it is or the process dies
WaitRejected ==
    /\ waitPromise = "pending"
    /\ pc # "threw"
    /\ waitPromise' = "rejected"
    /\ IF mode = "buffered"
       THEN Throw("wait")
       ELSE /\ \E dies \in BOOLEAN : pc' = IF dies THEN "crashed" ELSE pc
            /\ UNCHANGED thrown
    /\ UNCHANGED <<mode, options, config, ops, runtime, created, procState,
                   exitStatus, attached, delivered, stdout, stderr,
                   chunkQueue, resolveWaiting, streamEnded, waitResult,
                   yielded, removeOutcome, result>>
    /\ UNCHANGED <<runnerVars, utilVars>>

\* runCommand: the 100ms timer fires; the container is removed unless kept,
\* otherwise the result is returned at once
Flush ==
    /\ mode = "buffered"
    /\ pc = "flush"
    /\ IF ShouldRemove(options)
       THEN /\ ops' = Append(ops, "remove")
            /\ pc' = "removing"
            /\ UNCHANGED result
       ELSE /\ result' = <<CommandResult(waitResult[1], stdout, stderr)>>
            /\ pc' = "done"
            /\ UNCHANGED ops
    /\ UNCHANGED <<mode, options, config, thrown, runtime, created, procState,
                   exitStatus, attached, delivered, stdout, stderr,
                   chunkQueue, resolveWaiting, streamEnded, waitPromise,
                   waitResult, yielded, removeOutcome>>
    /\ UNCHANGED <<runnerVars, utilVars>>

\* a removal whose rejection is not caught
RemoveSettledEscalates ==
    /\ pc = "removing"
    /\ \E ok \in BOOLEAN :
         IF ok
         THEN /\ runtime' = runtime \ created
              /\ removeOutcome' = "ok"
              /\ result' = IF mode = "buffered"
                            THEN <<CommandResult(waitResult[1], stdout, stderr)>>
                            ELSE <<StreamingReturn(waitResult[1])>>
              /\ pc' = "done"
              /\ UNCHANGED thrown
         ELSE /\ removeOutcome' = "failed"
              /\ Throw("remove")
              /\ UNCHANGED <<runtime, result>>
    /\ UNCHANGED <<mode, options, config, ops, created, procState, exitStatus,
                   attached, delivered, stdout, stderr, chunkQueue,
                   resolveWaiting, streamEnded, waitPromise, waitResult,
                   yielded>>
    /\ UNCHANGED <<runnerVars, utilVars>>

\* await container.remove({ force: true }) settles; a rejection is caught
\* and ignored; the call returns
RemoveSettled ==
    /\ pc = "removing"
    /\ \E ok \in BOOLEAN :
         IF ok
         THEN runtime' = runtime \ created /\ removeOutcome' = "ok"
         ELSE UNCHANGED runtime /\ removeOutcome' = "failed"
    /\ result' = IF mode = "buffered"
                 THEN <<CommandResult(waitResult[1], stdout, stderr)>>
                 ELSE <<StreamingReturn(waitResult[1])>>
    /\ pc' = "done"
    /\ UNCHANGED <<mode, options, config, thrown, ops, created, procState, exitStatus,
                   attached, delivered, stdout, stderr, chunkQueue,
                   resolveWaiting, streamEnded, waitPromise, waitResult,
                   yielded>>
    /\ UNCHANGED <<runnerVars, utilVars>>

\* the consumer asks for the next item: the generator continues after yield
ConsumerNext ==
    /\ mode = "streaming"
    /\ pc = "yield"
    /\ LoopBody(ops)
    /\ UNCHANGED <<mode, options, config, thrown, runtime, created, procState,
                   exitStatus, attached, delivered, stdout, stderr,
                   streamEnded, waitPromise, waitResult, removeOutcome>>
    /\ UNCHANGED <<runnerVars, utilVars>>

\* the generator continues after await new Promise(resolve => ...)
Resume ==
    /\ mode = "streaming"
    /\ pc = "resumed"
    /\ LoopBody(ops)
    /\ UNCHANGED <<mode, options, config, thrown, runtime, created, procState,
                   exitStatus, attached, delivered, stdout, stderr,
                   streamEnded, waitPromise, waitResult, removeOutcome>>
    /\ UNCHANGED <<runnerVars, utilVars>>

Next ==
    \/ CreateContainer
    \/ ExecCreate
    \/ ExecStart
    \/ copyFileToContainer
    \/ Attach
    \/ StartContainer
    \/ AfterStart
    \/ ProcessExit
    \/ DataEvent
    \/ WaitResolved
    \/ WaitRejected
    \/ Flush
    \/ RemoveSettled
    \/ ConsumerNext
    \/ Resume

Spec == Init /\ [][Next]_vars

\* every awaited runtime operation eventually resolves or rejects, the
\* process eventually exits, timers fire, and the consumer of a streaming
\* sequence keeps requesting items
Fairness ==
    /\ WF_vars(CreateContainer)
    /\ WF_vars(ExecCreate)
    /\ WF_vars(ExecStart)
    /\ WF_vars(copyFileToContainer)
    /\ WF_vars(Attach)
    /\ WF_vars(StartContainer)
    /\ WF_vars(AfterStart)
    /\ WF_vars(ProcessExit)
    /\ WF_vars(WaitResolved \/ WaitRejected)
    /\ WF_vars(Flush)
    /\ WF_vars(RemoveSettled)
    /\ WF_vars(ConsumerNext)
    /\ WF_vars(Resume)

FairSpec == Spec /\ Fairness

\* the consumer leaves its for await loop (break or return) after an item:
\* generator.return() completes the generator at the yield it is suspended
\* on; no finally block is around it, so nothing after the loop runs
ConsumerReturn ==
    /\ mode = "streaming"
    /\ pc = "yield"
    /\ pc' = "abandoned"
    /\ UNCHANGED <<mode, options, config, thrown, ops, runtime, created, procState,
                   exitStatus, attached, delivered, stdout, stderr, chunkQueue,
                   resolveWaiting, streamEnded, waitPromise, waitResult,
                   yielded, removeOutcome, result>>
    /\ UNCHANGED <<runnerVars, utilVars>>

\* a call whose consumer may stop iterating before the sequence is exhausted
AbandonNext == Next \/ ConsumerReturn

AbandonSpec == Init /\ [][AbandonNext]_vars /\ Fairness

\* ------------------------------------------------------------- the runner
\* a JSON string
Str(v) == [t |-> "string", v |-> v]

\* values the status property of a JSON object may have
StatusValues ==
    { Str("success"), Str("failure"), Str("pending"),
      [t |-> "number", v |-> "1"], [t |-> "null", v |-> ""] }

\* values the error property of a JSON object may have
ErrorValues == { Str("boom"), [t |-> "number", v |-> "7"] }

\* what surrounds the text of a status file: nothing, spaces and newlines,
\* or a byte order mark (U+FEFF) in front
Pads == {"none", "space", "bom"}

\* what the text between the padding is: not JSON, or the JSON null, a
\* number, an array, an object
JsonKinds == {"invalid", "null", "number", "array", "object"}

\* the texts parseStatusFile is given; only an object has properties
ParseInputs ==
    { c \in [pad : Pads, json : JsonKinds, status : StatusValues \cup {Undefined},
             error : ErrorValues \cup {Undefined}] :
        c.json # "object" => (c.status = Undefined /\ c.error = Undefined) }

\* the text with nothing around it
Doc(json, status, error) == [pad |-> "none", json |-> json, status |-> status, error |-> error]

\* contents the guarded process may leave at the status path: text that is
\* not JSON, JSON null, an object without status, {"status":"success"},
\* {"status":"failure","error":"boom"}, {"status":"pending"}
StatusContents ==
    { Doc("invalid", Undefined, Undefined),
      Doc("null", Undefined, Undefined),
      Doc("object", Undefined, Undefined),
      Doc("object", Str("success"), Undefined),
      Doc("object", Str("failure"), Str("boom")),
      Doc("object", Str("pending"), Undefined) }

VALID_STATUSES == {"success", "failure"}

InvalidJsonMessage == "Invalid JSON in status file"

NotAnObjectMessage == "Status file must contain a JSON object"

MissingStatusMessage == "Status file missing required status field"

InvalidStatusMessage == "Invalid status value"

\* a trim that leaves the text as it is
trimNothing(content) == content

\* content.trim(): white space, line ends and U+FEFF go from both ends
trim(content) == [content EXCEPT !.pad = "none"]

\* JSON.parse(text): white space around the value is allowed, a byte order
\* mark is a SyntaxError
JSONparse(text) ==
    IF text.json = "invalid" \/ text.pad = "bom"
    THEN [ok |-> FALSE, value |-> text]
    ELSE [ok |-> TRUE, value |-> text]

\* throw new Error(message)
ParseError(message) == [ok |-> FALSE, status |-> "", error |-> message]

\* a parser that takes any string for a status
parseStatusFileAnyStatus(content) ==
    LET parsed == JSONparse(trim(content))
        obj == parsed.value
    IN  IF ~parsed.ok THEN ParseError(InvalidJsonMessage)
        ELSE IF obj.json \notin {"object", "array"} THEN ParseError(NotAnObjectMessage)
        ELSE IF obj.status = Undefined THEN ParseError(MissingStatusMessage)
        ELSE IF obj.status.t # "string" THEN ParseError(InvalidStatusMessage)
        ELSE [ok |-> TRUE, status |-> obj.status.v,
              error |-> IF obj.error.t = "string" THEN obj.error.v ELSE ""]

\* parseStatusFile(content): the StatusFile, or the message of the Error
\* thrown; typeof null and typeof [] are 'object', and an array has no
\* status property
parseStatusFile(content) ==
    LET parsed == JSONparse(trim(content))
        obj == parsed.value
    IN  IF ~parsed.ok THEN ParseError(InvalidJsonMessage)
        ELSE IF obj.json \notin {"object", "array"} THEN ParseError(NotAnObjectMessage)
        ELSE IF obj.status = Undefined THEN ParseError(MissingStatusMessage)
        ELSE IF obj.status.t # "string" \/ obj.status.v \notin VALID_STATUSES
        THEN ParseError(InvalidStatusMessage)
        ELSE [ok |-> TRUE, status |-> obj.status.v,
              error |-> IF obj.error.t = "string" THEN obj.error.v ELSE ""]

NoStatusMessage == "No status file was created. Claude may not have completed the task."

\* a runner that takes a missing status file for a pass
NoStatusResultPasses(t) == [testFile |-> t, status |-> "success", error |-> ""]

\* runSingleTest: no status file - treat as failure
NoStatusResult(t) == [testFile |-> t, status |-> "failure", error |-> NoStatusMessage]

\* a catch that records the thrown error under a status of its own
CaughtResultAsError(t, message) == [testFile |-> t, status |-> "error", error |-> message]

\* runTests: catch (error) { results.push({ status: 'failure', error: errorMessage }) }
CaughtResult(t, message) == [testFile |-> t, status |-> "failure", error |-> message]

\* runSingleTest: the result for the status file found at the status path
StatusResult(t, status) == [testFile |-> t, status |-> status.status, error |-> status.error]

\* what Date.now() - startTime may come to for one test, in milliseconds
Durations == {0, 1500}

\* durationMs: Date.now() - startTime, added to a result
WithDuration(r, d) ==
    [testFile |-> r.testFile, status |-> r.status, error |-> r.error, durationMs |-> d]

\* runTests, dry run: results.push({ testFile, status: 'success', durationMs: 0 })
DryRunResult(t) == [testFile |-> t, status |-> "success", error |-> "", durationMs |-> 0]

\* results.filter((r) => r.status === status).length
CountStatus(rs, status) == Cardinality({k \in 1..Len(rs) : rs[k].status = status})

\* directories nori-tests may be invoked in
Cwds == {"/workspace", "/home/user/project"}

\* runSingleTest: the options it hands to containerManager.runCommand
runSingleTestOptions(workDir, o) ==
    [workDir |-> workDir,
     mounts |-> <<[hostPath |-> workDir, containerPath |-> "/workspace",
                   readOnly |-> "undefined"]>>,
     keepContainer |-> o.keepContainers]

\* what the command line handler may find: the folder argument, the result
\* of getAuthMethod, the terminal and the answer to the prompt for a key
CliInputs ==
    { c \in [folderExists : BOOLEAN, isDirectory : BOOLEAN,
             auth : {"api-key", "session", "none"}, isTTY : BOOLEAN,
             answer : {"", "sk-ant-key"}] :
        ~c.folderExists => ~c.isDirectory }

\* options.output, and whether fs.writeFileSync of the report succeeds
OutputValues == {"undefined", "writable", "unwritable"}

\* the call variables of a run in which only runTests is observed
CallIdle ==
    /\ mode = "buffered"
    /\ options = [keepContainer |-> "undefined", sessionFileToCopy |-> "undefined",
                  mounts |-> <<>>, privileged |-> "undefined"]
    /\ config = <<>>
    /\ pc = "unused"
    /\ thrown = ""
    /\ ops = <<>>
    /\ runtime = PreExisting
    /\ created = {}
    /\ procState = "notstarted"
    /\ exitStatus = <<>>
    /\ attached = FALSE
    /\ delivered = <<>>
    /\ stdout = <<>>
    /\ stderr = <<>>
    /\ chunkQueue = <<>>
    /\ resolveWaiting = FALSE
    /\ streamEnded = FALSE
    /\ waitPromise = "none"
    /\ waitResult = <<>>
    /\ yielded = <<>>
    /\ removeOutcome = "none"
    /\ result = <<>>

\* the command line handler has been invoked, or runTests has been called
\* by a program and discoverTests has returned nTests files
RunnerInit ==
    /\ CallIdle
    /\ UtilIdle
    /\ nTests \in 0..MaxTests
    /\ ropts \in [dryRun : BOOLEAN, keepContainers : {"undefined", "true"}]
    /\ cwd \in Cwds
    /\ \/ cli = [entry |-> "cli", error |-> ""] /\ rpc = "cli"
       \/ cli = NoCli /\ rpc = "start"
    /\ exitCode = <<>>
    /\ idx = 1
    /\ exec = [t \in Tests |-> "notStarted"]
    /\ callError = [t \in Tests |-> ""]
    /\ runOptions = [t \in Tests |-> <<>>]
    /\ rcontainers = {}
    /\ statusFile = Absent
    /\ statusBy = 0
    /\ seen = [t \in Tests |-> Unchecked]
    /\ promptFile = FALSE
    /\ results = <<>>
    /\ report = <<>>

\* process.exit(1) after the error has been reported
ExitWithError(reason) ==
    /\ cli' = [cli EXCEPT !.error = reason]
    /\ exitCode' = <<1>>
    /\ rpc' = "exited"

\* index.ts, up to the call of runTests: the folder is validated, an
\* authentication method is required unless --dry-run, the tests are
\* discovered (which throws when the folder is not a directory), and with no
\* test file the report is written when asked for and the process exits 0;
\* an error thrown on the way is caught and the process exits 1
CliStart ==
    /\ rpc = "cli"
    /\ \E c \in CliInputs, output \in OutputValues :
         IF ~c.folderExists
         THEN ExitWithError("folderMissing")
         ELSE IF c.auth = "none" /\ ~ropts.dryRun /\ (~c.isTTY \/ c.answer = "")
         THEN ExitWithError("noAuthentication")
         ELSE IF ~c.isDirectory
         THEN ExitWithError("discoverTests")
         ELSE IF nTests = 0
         THEN IF output = "unwritable"
              THEN ExitWithError("writeReport")
              ELSE exitCode' = <<0>> /\ rpc' = "exited" /\ UNCHANGED cli
         ELSE rpc' = "start" /\ UNCHANGED <<cli, exitCode>>
    /\ UNCHANGED <<nTests, cwd, runOptions, ropts, idx, exec, callError,
                   rcontainers, statusFile, statusBy, seen, promptFile, results,
                   report>>
    /\ UNCHANGED <<callVars, utilVars>>

\* a handler that exits 0 whatever the report says
ExitCodeZero(r) == 0

\* process.exit(report.failed > 0 ? 1 : 0)
ExitCodeFor(r) == IF r.failed > 0 THEN 1 ELSE 0

\* index.ts, after runTests returned: the summary is printed, the report is
\* written when asked for (a failed write is caught and exits 1), and the
\* process exits with the code for the report
CliFinish ==
    /\ rpc = "returned"
    /\ cli.entry = "cli"
    /\ \E output \in OutputValues :
         IF output = "unwritable"
         THEN ExitWithError("writeReport")
         ELSE /\ exitCode' = <<ExitCodeFor(report[1])>>
              /\ rpc' = "exited"
              /\ UNCHANGED cli
    /\ UNCHANGED <<nTests, cwd, runOptions, ropts, idx, exec, callError,
                   rcontainers, statusFile, statusBy, seen, promptFile, results,
                   report>>
    /\ UNCHANGED <<callVars, utilVars>>

\* if (options.dryRun) { ... return {...} }
DryRunReturn ==
    /\ rpc = "start"
    /\ ropts.dryRun
    /\ results' = [t \in 1..nTests |-> DryRunResult(t)]
    /\ report' = <<[totalTests |-> nTests, passed |-> nTests, failed |-> 0,
                    results |-> results']>>
    /\ rpc' = "returned"
    /\ UNCHANGED <<nTests, cwd, cli, exitCode, runOptions, ropts,
                   idx, exec, callError, rcontainers, statusFile,
                   statusBy, seen, promptFile>>
    /\ UNCHANGED <<callVars, utilVars>>

\* a runner that enters the loop in a dry run as well
EnterLoopAlways ==
    /\ rpc = "start"
    /\ rpc' = "loop"
    /\ UNCHANGED <<nTests, cwd, cli, exitCode, runOptions, ropts,
                   idx, exec, callError, rcontainers, statusFile,
                   statusBy, seen, promptFile, results, report>>
    /\ UNCHANGED <<callVars, utilVars>>

\* const containerManager = new ContainerManager(); for (let i = 0; ...)
EnterLoop ==
    /\ rpc = "start"
    /\ ~ropts.dryRun
    /\ rpc' = "loop"
    /\ UNCHANGED <<nTests, cwd, cli, exitCode, runOptions, ropts,
                   idx, exec, callError, rcontainers, statusFile,
                   statusBy, seen, promptFile, results, report>>
    /\ UNCHANGED <<callVars, utilVars>>

\* a loop that starts the next test without awaiting the one in progress
BeginTestNoAwait ==
    /\ rpc \in {"loop", "awaiting"}
    /\ \E t \in 1..nTests :
         /\ exec[t] = "notStarted"
         /\ \A u \in 1..(t - 1) : exec[u] # "notStarted"
         /\ promptFile' = TRUE
         /\ exec' = [exec EXCEPT ![t] = "calling"]
         /\ runOptions' = [runOptions EXCEPT ![t] = <<runSingleTestOptions(cwd, ropts)>>]
    /\ rpc' = "awaiting"
    /\ UNCHANGED <<nTests, cwd, cli, exitCode, ropts,
                   idx, callError, rcontainers, statusFile,
                   statusBy, seen, results, report>>
    /\ UNCHANGED <<callVars, utilVars>>

\* one iteration begins: await runSingleTest(containerManager, testFile,
\* options) reads the test file (which may throw), writes the prompt file
\* and calls containerManager.runCommand with the options for this test
BeginTest ==
    /\ rpc = "loop"
    /\ idx <= nTests
    /\ \E readable \in BOOLEAN :
         IF readable
         THEN /\ promptFile' = TRUE
              /\ exec' = [exec EXCEPT ![idx] = "calling"]
              /\ runOptions' = [runOptions EXCEPT ![idx] = <<runSingleTestOptions(cwd, ropts)>>]
              /\ UNCHANGED callError
         ELSE /\ exec' = [exec EXCEPT ![idx] = "threw"]
              /\ callError' = [callError EXCEPT ![idx] = "readTestFile"]
              /\ UNCHANGED <<promptFile, runOptions>>
    /\ rpc' = "awaiting"
    /\ UNCHANGED <<nTests, cwd, cli, exitCode, ropts,
                   idx, rcontainers, statusFile, statusBy, seen,
                   results, report>>
    /\ UNCHANGED <<callVars, utilVars>>

\* runCommand of test t: await this.docker.createContainer({...})
CallCreate(t) ==
    /\ exec[t] = "calling"
    /\ \E ok \in BOOLEAN :
         IF ok
         THEN /\ rcontainers' = rcontainers \cup {t}
              /\ exec' = [exec EXCEPT ![t] = "created"]
              /\ UNCHANGED callError
         ELSE /\ exec' = [exec EXCEPT ![t] = "threw"]
              /\ callError' = [callError EXCEPT ![t] = "create"]
              /\ UNCHANGED rcontainers
    /\ UNCHANGED <<nTests, cwd, cli, exitCode, runOptions, ropts,
                   rpc, idx, statusFile, statusBy, seen,
                   promptFile, results, report>>
    /\ UNCHANGED <<callVars, utilVars>>

\* runCommand of test t: await container.attach(...); await container.start()
CallStart(t) ==
    /\ exec[t] = "created"
    /\ \E outcome \in {"ok", "attach", "start"} :
         IF outcome = "ok"
         THEN /\ exec' = [exec EXCEPT ![t] = "running"]
              /\ UNCHANGED callError
         ELSE /\ exec' = [exec EXCEPT ![t] = "threw"]
              /\ callError' = [callError EXCEPT ![t] = outcome]
    /\ UNCHANGED <<nTests, cwd, cli, exitCode, runOptions, ropts,
                   rpc, idx, rcontainers, statusFile, statusBy,
                   seen, promptFile, results, report>>
    /\ UNCHANGED <<callVars, utilVars>>

\* runCommand of test t: the guarded process runs in the container, with the
\* working directory mounted, and may write the status file; then
\* container.wait() settles and, when it resolved, the container is removed
\* unless kept (a failed removal is ignored) and runCommand returns
CallEnds(t) ==
    /\ exec[t] = "running"
    /\ \E written \in StatusContents \cup {Absent} :
         IF written = Absent
         THEN UNCHANGED <<statusFile, statusBy>>
         ELSE statusFile' = written /\ statusBy' = t
    /\ \E waited \in BOOLEAN :
         IF waited
         THEN /\ exec' = [exec EXCEPT ![t] = "returned"]
              /\ UNCHANGED callError
              /\ IF ShouldRemove(runOptions[t][1])
                 THEN \E removed \in BOOLEAN :
                        rcontainers' = IF removed THEN rcontainers \ {t} ELSE rcontainers
                 ELSE UNCHANGED rcontainers
         ELSE /\ exec' = [exec EXCEPT ![t] = "threw"]
              /\ callError' = [callError EXCEPT ![t] = "wait"]
              /\ UNCHANGED rcontainers
    /\ UNCHANGED <<nTests, cwd, cli, exitCode, runOptions, ropts,
                   rpc, idx, seen, promptFile, results, report>>
    /\ UNCHANGED <<callVars, utilVars>>

\* the rest of runSingleTest after runCommand returned: the status file is
\* looked for, parsed and unlinked; finally the prompt file is unlinked
AfterRunCommand ==
    /\ seen' = [seen EXCEPT ![idx] = statusFile]
    /\ promptFile' = FALSE
    /\ \E d \in Durations :
         IF statusFile = Absent
         THEN /\ results' = Append(results, WithDuration(NoStatusResult(idx), d))
              /\ UNCHANGED <<statusFile, statusBy>>
         ELSE LET status == parseStatusFile(statusFile) IN
              IF status.ok
              THEN /\ results' = Append(results, WithDuration(StatusResult(idx, status), d))
                   /\ statusFile' = Absent
                   /\ statusBy' = 0
              ELSE /\ results' = Append(results, WithDuration(CaughtResult(idx, status.error), d))
                   /\ UNCHANGED <<statusFile, statusBy>>

\* a loop without the try/catch around runSingleTest
RecordTestUncaught ==
    /\ rpc = "awaiting"
    /\ exec[idx] \in {"returned", "threw"}
    /\ IF exec[idx] = "threw"
       THEN /\ rpc' = "threw"
            /\ promptFile' = IF callError[idx] = "readTestFile" THEN promptFile ELSE FALSE
            /\ UNCHANGED <<idx, results, seen, statusFile, statusBy>>
       ELSE /\ AfterRunCommand
            /\ idx' = idx + 1
            /\ rpc' = "loop"
    /\ UNCHANGED <<nTests, cwd, cli, exitCode, runOptions, ropts,
                   exec, callError, rcontainers, report>>
    /\ UNCHANGED <<callVars, utilVars>>

\* await runSingleTest(...) settles: its result is pushed, or the error it
\* threw is caught and pushed as a failure; the loop goes on with i + 1
RecordTest ==
    /\ rpc = "awaiting"
    /\ exec[idx] \in {"returned", "threw"}
    /\ IF exec[idx] = "threw"
       THEN /\ \E d \in Durations :
                 results' = Append(results, WithDuration(CaughtResult(idx, callError[idx]), d))
            /\ promptFile' = IF callError[idx] = "readTestFile" THEN promptFile ELSE FALSE
            /\ UNCHANGED <<seen, statusFile, statusBy>>
       ELSE AfterRunCommand
    /\ idx' = idx + 1
    /\ rpc' = "loop"
    /\ UNCHANGED <<nTests, cwd, cli, exitCode, runOptions, ropts,
                   exec, callError, rcontainers, report>>
    /\ UNCHANGED <<callVars, utilVars>>

\* the loop is over: return { totalTests, passed, failed, results, ... }
Finish ==
    /\ rpc = "loop"
    /\ idx > nTests
    /\ report' = <<[totalTests |-> nTests,
                    passed |-> CountStatus(results, "success"),
                    failed |-> CountStatus(results, "failure"),
                    results |-> results]>>
    /\ rpc' = "returned"
    /\ UNCHANGED <<nTests, cwd, cli, exitCode, runOptions, ropts,
                   idx, exec, callError, rcontainers, statusFile,
                   statusBy, seen, promptFile, results>>
    /\ UNCHANGED <<callVars, utilVars>>

RunnerNext ==
    \/ CliStart
    \/ CliFinish
    \/ DryRunReturn
    \/ EnterLoop
    \/ BeginTest
    \/ \E t \in Tests : CallCreate(t)
    \/ \E t \in Tests : CallStart(t)
    \/ \E t \in Tests : CallEnds(t)
    \/ RecordTest
    \/ Finish

RunnerSpec == RunnerInit /\ [][RunnerNext]_vars

\* ---------------------------------------------------------- the utilities
\* number of progress events the runtime reports during one pull
MaxProgress == 2

\* what getAuthMethod reads: process.env.ANTHROPIC_API_KEY, os.homedir(),
\* which of <home>/.claude/.credentials.json ("global") and
\* <cwd>/.credentials.json ("local") exist, and its argument
AuthEnvs ==
    [apiKey : {"undefined", "", "sk-ant-key"}, home : {"", "/home/u"},
     files : SUBSET {"global", "local"}, preferSession : {"undefined", "false", "true"}]

GlobalSession == "/home/u/.claude/.credentials.json"

LocalSession == "/cwd/.credentials.json"

\* findClaudeSessionFile(): the global location first, then the local one
findClaudeSessionFile(e) ==
    IF Truthy(e.home) /\ "global" \in e.files THEN GlobalSession
    ELSE IF "local" \in e.files THEN LocalSession
    ELSE "null"

\* a getAuthMethod that takes the API key first whatever preferSession says
getAuthMethodKeyFirst(e) ==
    LET apiKey == e.apiKey
        sessionFile == findClaudeSessionFile(e)
        hasBoth == Truthy(apiKey) /\ Truthy(sessionFile)
    IN  IF Truthy(apiKey) THEN [type |-> "api-key", apiKey |-> apiKey, hasBoth |-> hasBoth]
        ELSE IF Truthy(sessionFile)
        THEN [type |-> "session", sessionFile |-> sessionFile, hasBoth |-> hasBoth]
        ELSE [type |-> "none"]

\* getAuthMethod(preferSession = false) in the environment e
getAuthMethod(e) ==
    LET apiKey == e.apiKey
        sessionFile == findClaudeSessionFile(e)
        hasBoth == Truthy(apiKey) /\ Truthy(sessionFile)
    IN  IF Truthy(e.preferSession)
        THEN IF Truthy(sessionFile)
             THEN [type |-> "session", sessionFile |-> sessionFile, hasBoth |-> hasBoth]
             ELSE IF Truthy(apiKey)
             THEN [type |-> "api-key", apiKey |-> apiKey, hasBoth |-> hasBoth]
             ELSE [type |-> "none"]
        ELSE IF Truthy(apiKey)
             THEN [type |-> "api-key", apiKey |-> apiKey, hasBoth |-> hasBoth]
             ELSE IF Truthy(sessionFile)
             THEN [type |-> "session", sessionFile |-> sessionFile, hasBoth |-> hasBoth]
             ELSE [type |-> "none"]

\* the methods getAuthConfig is given: what getAuthMethod returns, and the
\* method index.ts makes of a key typed at the prompt
AuthMethods ==
    { getAuthMethod(e) : e \in AuthEnvs } \cup { [type |-> "api-key", apiKey |-> "typed-key"] }

\* env: {}
EmptyEnv == [k \in {} |-> ""]

\* a getAuthConfig that passes the session file and an API key variable
getAuthConfigBoth(authMethod) ==
    IF authMethod.type = "api-key"
    THEN [threw |-> FALSE, env |-> [ANTHROPIC_API_KEY |-> authMethod.apiKey],
          sessionFileToCopy |-> "null"]
    ELSE IF authMethod.type = "session"
    THEN [threw |-> FALSE, env |-> [ANTHROPIC_API_KEY |-> ""],
          sessionFileToCopy |-> authMethod.sessionFile]
    ELSE [threw |-> TRUE, message |-> "No authentication method available"]

\* getAuthConfig(authMethod): the AuthConfig, or the Error thrown
getAuthConfig(authMethod) ==
    IF authMethod.type = "api-key"
    THEN [threw |-> FALSE, env |-> [ANTHROPIC_API_KEY |-> authMethod.apiKey],
          sessionFileToCopy |-> "null"]
    ELSE IF authMethod.type = "session"
    THEN [threw |-> FALSE, env |-> EmptyEnv,
          sessionFileToCopy |-> authMethod.sessionFile]
    ELSE [threw |-> TRUE, message |-> "No authentication method available"]

\* images pullImage is asked for
Images == {"node:20", "node:20-slim"}

\* a utility has been called with its argument; pullImage has run the
\* executor of its promise, which issued docker.pull
\* ------------------------------------------------------- StreamFormatter
\* the longest text given to one StreamFormatter, in symbols
MaxText == 4

\* the most calls of processChunk on one StreamFormatter
MaxChunks == 3

\* the text is a string of these runs of characters; a chunk boundary may
\* fall between any two of them
Open == "{\"type\":\"result\""

IsError == ",\"subtype\":\"error\",\"is_error\":true"

Close == "}"

Space == " "

Newline == "\n"

Symbols == {Open, IsError, Close, Space, Newline}

\* the texts claude-code may emit: complete and incomplete lines, valid and
\* invalid JSON, blank lines
Texts == UNION {[1..n -> Symbols] : n \in 0..MaxText}

\* a property of a message that is absent
NoString == [t |-> "undefined", chars |-> <<>>]

\* a string-valued property of a message
StringOf(chars) == [t |-> "string", chars |-> chars]

\* result texts: absent, '', 'boom', and one of 81 characters
ResultValues ==
    {NoString, StringOf(<<>>), StringOf(<<"b", "o", "o", "m">>),
     StringOf([k \in 1..81 |-> "x"])}

\* StreamMessage values without cost, duration and turns: type result or a
\* type no formatter knows, subtype?, is_error?, result?
Messages ==
    [type : {"result", "ping"},
     subtype : {"undefined", "success", "error"},
     is_error : {"undefined", "false", "true"},
     result : ResultValues]

\* str.length <= maxLen ? str : str.slice(0, maxLen - 3) + '...'
truncate(str, maxLen) ==
    IF Len(str) <= maxLen THEN str
    ELSE SubSeq(str, 1, maxLen - 3) \o <<".", ".", ".">>

\* formatResultMessage(msg): <<>> for null, else <<the line>>; the line is
\* the colour, the words after the mark (Complete, Error) and what follows
\* them. total_cost_usd, duration_ms and num_turns are absent, so stats is ''
formatResultMessage(msg) ==
    IF msg.subtype = "success" \/ ~Truthy(msg.is_error)
    THEN <<[color |-> "green", text |-> "Complete", detail |-> <<>>]>>
    ELSE IF Truthy(msg.is_error) \/ msg.subtype = "error"
    THEN LET errorMsg == IF msg.result.t = "string" /\ msg.result.chars # <<>>
                         THEN <<":", " ">> \o truncate(msg.result.chars, 80)
                         ELSE <<>>
         IN <<[color |-> "red", text |-> "Error", detail |-> errorMsg]>>
    ELSE <<>>

\* formatMessage(msg): switch (msg.type), for the types of Messages
formatMessage(msg) ==
    IF msg.type = "result" THEN formatResultMessage(msg) ELSE <<>>

\* str.split('\n')
RECURSIVE split(_)
split(str) ==
    IF \A k \in 1..Len(str) : str[k] # Newline THEN <<str>>
    ELSE LET k == CHOOSE j \in 1..Len(str) :
                      str[j] = Newline /\ \A h \in 1..(j - 1) : str[h] # Newline
         IN <<SubSeq(str, 1, k - 1)>> \o split(SubSeq(str, k + 1, Len(str)))

\* line.trim(): white space taken off both ends
RECURSIVE trimmed(_)
trimmed(line) ==
    IF line = <<>> THEN line
    ELSE IF Head(line) = Space THEN trimmed(Tail(line))
    ELSE IF line[Len(line)] = Space THEN trimmed(SubSeq(line, 1, Len(line) - 1))
    ELSE line

\* JSON.parse(trimmed) as StreamMessage: white space between tokens is
\* allowed, a repeated key is allowed, anything else but an object throws
JSONparseLine(text) ==
    LET tokens == SelectSeq(text, LAMBDA c : c # Space)
        n == Len(tokens)
        marked == \E k \in 1..n : tokens[k] = IsError
    IN  IF /\ n >= 2
           /\ tokens[1] = Open
           /\ tokens[n] = Close
           /\ \A k \in 2..(n - 1) : tokens[k] = IsError
        THEN [ok |-> TRUE,
              msg |-> [type |-> "result",
                       subtype |-> IF marked THEN "error" ELSE "undefined",
                       is_error |-> IF marked THEN "true" ELSE "undefined",
                       result |-> NoString]]
        ELSE [ok |-> FALSE, msg |-> <<>>]

\* the loop of processChunk over the complete lines
RECURSIVE formatLines(_)
formatLines(lines) ==
    IF lines = <<>> THEN <<>>
    ELSE LET text == trimmed(Head(lines))
             parsed == JSONparseLine(text)
         IN (IF text = <<>> \/ ~parsed.ok THEN <<>> ELSE formatMessage(parsed.msg))
            \o formatLines(Tail(lines))

\* a formatter that splits each chunk by itself
processChunkUnbuffered(buf, data) ==
    IF data = <<>> THEN [buffer |-> buf, results |-> <<>>]
    ELSE LET lines == split(data)
         IN [buffer |-> lines[Len(lines)],
             results |-> formatLines(SubSeq(lines, 1, Len(lines) - 1))]

\* processChunk(data) on a formatter whose buffer is buf: the buffer it
\* leaves and the results it returns
processChunk(buf, data) ==
    IF data = <<>> THEN [buffer |-> buf, results |-> <<>>]
    ELSE LET lines == split(buf \o data)
         IN [buffer |-> lines[Len(lines)],
             results |-> formatLines(SubSeq(lines, 1, Len(lines) - 1))]

\* the text given to the formatter so far
RECURSIVE Concat(_)
Concat(seqs) == IF seqs = <<>> THEN <<>> ELSE Head(seqs) \o Concat(Tail(seqs))

\* formatter.processChunk(data) with the next part of the text, of any
\* length from nothing to all that is left
ProcessChunkCall ==
    /\ fn = "processChunk"
    /\ Len(inputs) < MaxChunks
    /\ LET fed == Len(Concat(inputs)) IN
       \E k \in 0..(Len(arg) - fed) :
          LET data == SubSeq(arg, fed + 1, fed + k)
              r == processChunk(buffer, data)
          IN /\ buffer' = r.buffer
             /\ inputs' = Append(inputs, data)
             /\ outputs' = Append(outputs, r.results)
    /\ UNCHANGED <<fn, arg, ret, pullSignals, promise, settleCalls>>
    /\ UNCHANGED <<callVars, runnerVars>>

\* formatMessage(msg) returns
FormatMessageCall ==
    /\ fn = "formatMessage"
    /\ ret = <<>>
    /\ ret' = <<formatMessage(arg)>>
    /\ UNCHANGED <<fn, arg, pullSignals, promise, settleCalls, buffer, inputs, outputs>>
    /\ UNCHANGED <<callVars, runnerVars>>

UtilInit ==
    /\ CallIdle
    /\ RunnerIdle
    /\ ret = <<>>
    /\ pullSignals = <<>>
    /\ settleCalls = 0
    /\ buffer = <<>>
    /\ inputs = <<>>
    /\ outputs = <<>>
    /\ \/ fn = "parseStatusFile" /\ arg \in ParseInputs /\ promise = "none"
       \/ fn = "getAuthMethod" /\ arg \in AuthEnvs /\ promise = "none"
       \/ fn = "getAuthConfig" /\ arg \in AuthMethods /\ promise = "none"
       \/ fn = "pullImage" /\ arg \in Images /\ promise = "pending"
       \/ fn = "processChunk" /\ arg \in Texts /\ promise = "none"
       \/ fn = "formatMessage" /\ arg \in Messages /\ promise = "none"

\* parseStatusFile(content) returns or throws
ParseStatusFileCall ==
    /\ fn = "parseStatusFile"
    /\ ret = <<>>
    /\ ret' = <<parseStatusFile(arg)>>
    /\ UNCHANGED <<fn, arg, pullSignals, promise, settleCalls, buffer, inputs, outputs>>
    /\ UNCHANGED <<callVars, runnerVars>>

\* getAuthMethod(preferSession) returns
GetAuthMethodCall ==
    /\ fn = "getAuthMethod"
    /\ ret = <<>>
    /\ ret' = <<getAuthMethod(arg)>>
    /\ UNCHANGED <<fn, arg, pullSignals, promise, settleCalls, buffer, inputs, outputs>>
    /\ UNCHANGED <<callVars, runnerVars>>

\* getAuthConfig(authMethod) returns or throws
GetAuthConfigCall ==
    /\ fn = "getAuthConfig"
    /\ ret = <<>>
    /\ ret' = <<getAuthConfig(arg)>>
    /\ UNCHANGED <<fn, arg, pullSignals, promise, settleCalls, buffer, inputs, outputs>>
    /\ UNCHANGED <<callVars, runnerVars>>

\* resolve() or reject(err) of a promise: only a pending promise settles
Settle(p, outcome) == IF p = "pending" THEN outcome ELSE p

\* the last signal of the runtime, "" before the first
LastSignal == IF pullSignals = <<>> THEN "" ELSE pullSignals[Len(pullSignals)]

\* a pull callback that resolves as soon as the stream is handed over
PullCallbackResolvesOnStream ==
    /\ fn = "pullImage"
    /\ pullSignals = <<>>
    /\ \E err \in BOOLEAN :
         IF err
         THEN /\ pullSignals' = <<"pullError">>
              /\ promise' = Settle(promise, "rejected")
              /\ settleCalls' = settleCalls + 1
         ELSE /\ pullSignals' = <<"stream">>
              /\ promise' = Settle(promise, "resolved")
              /\ settleCalls' = settleCalls + 1
    /\ UNCHANGED <<fn, arg, ret, buffer, inputs, outputs>>
    /\ UNCHANGED <<callVars, runnerVars>>

\* the callback of docker.pull: if (err) { reject(err); return; } else
\* this.docker.modem.followProgress(stream, ...)
PullCallback ==
    /\ fn = "pullImage"
    /\ pullSignals = <<>>
    /\ \E err \in BOOLEAN :
         IF err
         THEN /\ pullSignals' = <<"pullError">>
              /\ promise' = Settle(promise, "rejected")
              /\ settleCalls' = settleCalls + 1
         ELSE /\ pullSignals' = <<"stream">>
              /\ UNCHANGED <<promise, settleCalls>>
    /\ UNCHANGED <<fn, arg, ret, buffer, inputs, outputs>>
    /\ UNCHANGED <<callVars, runnerVars>>

\* the runtime reports progress of the pull on the stream; followProgress
\* was given no onProgress callback
ProgressEvent ==
    /\ fn = "pullImage"
    /\ LastSignal \in {"stream", "progress"}
    /\ Len(pullSignals) <= MaxProgress
    /\ pullSignals' = Append(pullSignals, "progress")
    /\ UNCHANGED <<fn, arg, ret, promise, settleCalls, buffer, inputs, outputs>>
    /\ UNCHANGED <<callVars, runnerVars>>

\* the callback given to followProgress, called when the stream has ended
\* or failed: if (err) reject(err) else resolve()
ProgressFinished ==
    /\ fn = "pullImage"
    /\ LastSignal \in {"stream", "progress"}
    /\ \E err \in BOOLEAN :
         /\ pullSignals' = Append(pullSignals, IF err THEN "finishedError" ELSE "finishedOk")
         /\ promise' = Settle(promise, IF err THEN "rejected" ELSE "resolved")
    /\ settleCalls' = settleCalls + 1
    /\ UNCHANGED <<fn, arg, ret, buffer, inputs, outputs>>
    /\ UNCHANGED <<callVars, runnerVars>>

UtilNext ==
    \/ ParseStatusFileCall
    \/ GetAuthMethodCall
    \/ GetAuthConfigCall
    \/ PullCallback
    \/ ProgressEvent
    \/ ProgressFinished
    \/ ProcessChunkCall
    \/ FormatMessageCall

UtilSpec == UtilInit /\ [][UtilNext]_vars

\* ---------------------------------------------------------------- claims
\* the text accumulated from the events of one sink, in delivery order
RECURSIVE TextOf(_, _)
TextOf(events, sink) ==
    IF events = <<>> THEN <<>>
    ELSE (IF Head(events).sink = sink THEN toString(Head(events).bytes) ELSE <<>>)
         \o TextOf(Tail(events), sink)

\* chunks.filter(c => c.type === type).map(c => c.data).join('')
RECURSIVE DataOf(_, _)
DataOf(chunks, type) ==
    IF chunks = <<>> THEN <<>>
    ELSE (IF Head(chunks).type = type THEN Head(chunks).data ELSE <<>>)
         \o DataOf(Tail(chunks), type)

\* the chunks of one origin, in order
OfType(chunks, type) == SelectSeq(chunks, LAMBDA c : c.type = type)

\* the chunks that the events of one sink decode to, in order
DecodedOf(events, sink) ==
    LET es == SelectSeq(events, LAMBDA e : e.sink = sink)
    IN  [i \in 1..Len(es) |-> [type |-> sink, data |-> toString(es[i].bytes)]]

Returned == pc = "done"

\* C1: a call that returns with keepContainer not set has issued a remove of
\* its container and awaited it before returning, and when that removal
\* succeeded no container created by the call is listed by the runtime.
C1_RemovedOnReturn ==
    (Returned /\ ~Truthy(options.keepContainer)) =>
        /\ Issued("remove")
        /\ removeOutcome # "none"
        /\ (removeOutcome = "ok" => created \cap runtime = {})

C1_Witness ==
    /\ Returned
    /\ mode = "streaming"
    /\ options.keepContainer = "undefined"
    /\ yielded # <<>>
    /\ removeOutcome = "ok"
    /\ created # {}

\* C2: a call made with keepContainer true never issues a remove, and when
\* it has returned exactly one container created by it is listed by the
\* runtime.
C2_KeptOnReturn ==
    Truthy(options.keepContainer) =>
        /\ ~Issued("remove")
        /\ removeOutcome = "none"
        /\ (Returned => Cardinality(created \cap runtime) = 1)

C2_Witness ==
    /\ Returned
    /\ mode = "buffered"
    /\ options.keepContainer = "true"
    /\ Issued("wait")

\* C3: the exitCode of the result runCommand returns is the status code the
\* runtime reported from the wait, which is the code the process exited with.
C3_ExitCodeMatches ==
    (Returned /\ mode = "buffered") =>
        /\ result[1].exitCode = waitResult[1].StatusCode
        /\ result[1].exitCode = exitStatus[1]

C3_Witness ==
    /\ Returned
    /\ mode = "buffered"
    /\ exitStatus = <<42>>

\* C4: for the same delivered events, the stdout text of a buffered run and
\* the concatenated stdout chunks of a fully consumed streaming run are the
\* same text, namely the decoded stdout events in order.
C4_StreamingEqualsBuffered ==
    Returned =>
        /\ mode = "buffered" => result[1].stdout = TextOf(delivered, "stdout")
        /\ mode = "streaming" => DataOf(yielded, "stdout") = TextOf(delivered, "stdout")

\* C5: when a streaming sequence has been consumed to its end, every data
\* event delivered during the call, on either sink, has been yielded as a
\* chunk.
C5_AllOutputYielded ==
    (Returned /\ mode = "streaming") =>
        yielded = [i \in 1..Len(delivered) |-> ChunkOf(delivered[i])]

C7_DeliversWhileRunning ==
    /\ [][((ConsumerNext \/ Resume \/ (AfterStart /\ mode = "streaming"))
             /\ chunkQueue # <<>>)
           => (pc' = "yield" /\ yielded' = Append(yielded, Head(chunkQueue)))]_vars
    /\ [](pc = "suspended"
           => (mode = "streaming" /\ chunkQueue = <<>> /\ ~streamEnded /\ resolveWaiting))

C7_Witness ==
    /\ mode = "streaming"
    /\ pc = "yield"
    /\ procState = "running"
    /\ ~streamEnded
    /\ Len(yielded) = 2

\* C8: the value a completed streaming sequence returns is the status code
\* the runtime reported from the wait, which is the code the process exited
\* with; it is not one of the yielded chunks.
C8_StreamingReturnsExitCode ==
    (Returned /\ mode = "streaming") =>
        /\ result[1] = waitResult[1].StatusCode
        /\ result[1] = exitStatus[1]
        /\ result[1] \in ExitCodes

C8_Witness ==
    /\ Returned
    /\ mode = "streaming"
    /\ exitStatus = <<42>>
    /\ yielded # <<>>

\* C9: in streaming mode the chunks of each type, yielded or queued, are in
\* order exactly the decoded events delivered on the sink of that name; in
\* buffered mode stdout and stderr are each the text of their own sink's
\* events only.
C9_NeverMixed ==
    /\ mode = "streaming" =>
         \A t \in {"stdout", "stderr"} :
            OfType(yielded \o chunkQueue, t) = DecodedOf(delivered, t)
    /\ mode = "buffered" =>
         /\ stdout = TextOf(delivered, "stdout")
         /\ stderr = TextOf(delivered, "stderr")

C9_Witness ==
    /\ mode = "streaming"
    /\ Len(yielded) = 3
    /\ yielded[1].type = "stderr"
    /\ yielded[2].type = "stdout"
    /\ yielded[3].type = "stderr"

InjectionOps == {"exec", "execStart", "putArchive"}

\* C10: with a session file supplied, a started container has had the
\* directory creation and the archive write issued, in that order, after the
\* create and before the start, and no output is delivered before them; every
\* injection operation is issued on a created container; with no session
\* file supplied no injection operation is issued.
C10_InjectionBetweenCreateAndStart ==
    /\ (Truthy(options.sessionFileToCopy) /\ Issued("start")) =>
          /\ \A op \in InjectionOps : Issued(op)
          /\ Position("create") < Position("exec")
          /\ Position("exec") < Position("execStart")
          /\ Position("execStart") < Position("putArchive")
          /\ Position("putArchive") < Position("start")
    /\ (Truthy(options.sessionFileToCopy) /\ delivered # <<>>) => Issued("putArchive")
    /\ \A i \in 1..Len(ops) :
          ops[i] \in InjectionOps =>
             /\ created # {}
             /\ \E j \in 1..(i - 1) : ops[j] = "create"
             /\ \A j \in 1..i : ops[j] # "start"
    /\ ~Truthy(options.sessionFileToCopy) => \A op \in InjectionOps : ~Issued(op)

C10_Witness ==
    /\ mode = "streaming"
    /\ Truthy(options.sessionFileToCopy)
    /\ Issued("putArchive")
    /\ Issued("start")
    /\ delivered # <<>>

\* how many times the call issued one runtime operation
OpCount(op) == Cardinality({i \in 1..Len(ops) : ops[i] = op})

\* C11: a started container has had the attach issued before the start and
\* the listeners wired to the demultiplexer's two sinks, so the process never
\* runs, and no data event is delivered, without a listener registered.
C11_AttachedBeforeStart ==
    /\ Issued("start") =>
          /\ Issued("attach")
          /\ Position("attach") < Position("start")
          /\ attached
    /\ procState # "notstarted" => attached
    /\ delivered # <<>> => attached

C11_Witness ==
    /\ mode = "buffered"
    /\ Issued("start")
    /\ procState = "running"
    /\ Len(delivered) = 2

\* C12: each of create, start, wait and remove is issued at most once in a
\* call, a call that threw threw the error of the operation that failed, and
\* a rejected wait leads to the call throwing that error.
C12_NoRetryErrorsSurface ==
    /\ [](\A op \in {"create", "start", "wait", "remove"} : OpCount(op) <= 1)
    /\ [](pc = "threw" => (thrown # "" /\ thrown # "remove"))
    /\ (waitPromise = "rejected") ~> (pc = "threw" /\ thrown = "wait")

\* C13: a removal that failed has not failed the call: the call has returned,
\* nothing was thrown, and the result carries the exit code of the process
\* and, in buffered mode, the captured output.
C13_RemoveFailureSwallowed ==
    removeOutcome = "failed" =>
        /\ Returned
        /\ thrown = ""
        /\ mode = "buffered" =>
             result[1] = [exitCode |-> exitStatus[1], stdout |-> stdout, stderr |-> stderr]
        /\ mode = "streaming" => result[1] = exitStatus[1]

C13_Witness ==
    /\ removeOutcome = "failed"
    /\ mode = "buffered"
    /\ exitStatus = <<42>>
    /\ stdout # <<>>
    /\ created \cap runtime # {}

InjectionErrors == {"exec", "execStart", "readFile", "putArchive"}

\* C14: when the directory creation or the archive write failed, the call
\* has thrown and no container created by it is listed by the runtime.
C14_InjectionFailureRemovesContainer ==
    thrown \in InjectionErrors =>
        /\ pc = "threw"
        /\ created \cap runtime = {}

\* C15: when attach, start or wait failed and the container was not to be
\* kept, the call has thrown and a remove of the container has been issued.
C15_RuntimeFailureAttemptsRemoval ==
    (thrown \in {"attach", "start", "wait"} /\ ShouldRemove(options)) =>
        /\ pc = "threw"
        /\ Issued("remove")

\* C16: when every runtime operation settles and the consumer keeps
\* requesting, every call eventually returns its result or throws.
C16_EventuallyReturnsOrThrows == <>(pc \in {"done", "threw"})

\* C17: in streaming mode the remove is issued only in a step taken with the
\* wait resolved, the queue empty and every chunk queued until then yielded,
\* and only when keepContainer is not set; a sequence that returns without
\* keepContainer has issued it.
C17_RemoveAfterDrain ==
    /\ [][(mode = "streaming" /\ ~Issued("remove") /\ OpCount("remove")' > 0)
           => /\ waitPromise = "fulfilled"
              /\ waitResult # <<>>
              /\ streamEnded
              /\ chunkQueue = <<>>
              /\ Len(yielded) = Len(delivered)
              /\ ~Truthy(options.keepContainer)]_vars
    /\ []((mode = "streaming" /\ Returned)
           => (Issued("remove") <=> ~Truthy(options.keepContainer)))

C17_Witness ==
    /\ mode = "streaming"
    /\ pc = "removing"
    /\ Issued("remove")
    /\ Len(yielded) = 2
    /\ chunkQueue = <<>>

\* the tests whose runCommand is in progress
InProgress == {t \in Tests : exec[t] \in {"calling", "created", "running"}}

\* C18: runTests executes its tests one at a time: at most one runCommand is
\* in progress, and test t+1 has not begun unless the execution of test t
\* has returned or thrown and its result has been recorded.
C18_OneAtATime ==
    /\ Cardinality(InProgress) <= 1
    /\ \A t \in Tests :
          (t + 1 \in Tests /\ exec[t + 1] # "notStarted") =>
             /\ exec[t] \in {"returned", "threw"}
             /\ Len(results) >= t
             /\ (t + 1 \in rcontainers => exec[t] \in {"returned", "threw"})

C18_Witness ==
    /\ exec[1] = "returned"
    /\ exec[2] = "running"
    /\ 2 \in rcontainers

\* C19: runTests never throws; a test whose execution threw has the result
\* failure with the message of that error; and when runTests has returned
\* outside dry-run every discovered test has been executed and has a result.
C19_ExceptionsBecomeFailures ==
    /\ rpc # "threw"
    /\ \A t \in 1..Len(results) :
          exec[t] = "threw" =>
             /\ callError[t] # ""
             /\ results[t].testFile = t
             /\ results[t].status = "failure"
             /\ results[t].error = callError[t]
    /\ (rpc = "returned" /\ ~ropts.dryRun) =>
          /\ Len(results) = nTests
          /\ \A t \in 1..nTests : exec[t] \in {"returned", "threw"}

C19_Witness ==
    /\ rpc = "returned"
    /\ exec[1] = "threw"
    /\ callError[1] = "create"
    /\ exec[2] = "returned"
    /\ results[2].status = "success"

\* C20: a test for which runSingleTest found no file at the status path has
\* the result failure with the no-status-file message, and runTests has not
\* thrown.
C20_NoStatusFileIsFailure ==
    \A t \in 1..Len(results) :
       seen[t] = Absent =>
          /\ rpc # "threw"
          /\ exec[t] = "returned"
          /\ results[t].testFile = t
          /\ results[t].status = "failure"
          /\ results[t].error = NoStatusMessage

C20_Witness ==
    /\ Len(results) = 2
    /\ seen[2] = Absent
    /\ exec[2] = "returned"
    /\ results[1].status = "success"

\* the text, trimmed, is a JSON object whose status is the string success or
\* failure
WellFormed(c) ==
    /\ c.json = "object"
    /\ c.status.t = "string"
    /\ c.status.v \in {"success", "failure"}

\* a file was found at the status path and its text is not well formed
Malformed(c) == c.json \notin {"absent", "unchecked"} /\ ~WellFormed(c)

ParseMessages ==
    {InvalidJsonMessage, NotAnObjectMessage, MissingStatusMessage, InvalidStatusMessage}

\* C21: a test for which runSingleTest found a malformed status file has the
\* result failure with the message of the parse error; runTests does not
\* throw, and when it has returned every discovered test has been executed
\* and has a result.
C21_MalformedStatusIsFailure ==
    /\ rpc # "threw"
    /\ \A t \in 1..Len(results) :
          Malformed(seen[t]) =>
             /\ results[t].testFile = t
             /\ results[t].status = "failure"
             /\ results[t].error \in ParseMessages
    /\ (rpc = "returned" /\ ~ropts.dryRun) =>
          /\ Len(results) = nTests
          /\ \A t \in 1..nTests : exec[t] \in {"returned", "threw"}

C21_Witness ==
    /\ rpc = "returned"
    /\ nTests = 2
    /\ seen[1].json = "invalid"
    /\ results[1].status = "failure"
    /\ results[1].error = InvalidJsonMessage
    /\ exec[2] = "returned"
    /\ results[2].status = "success"

\* C22 as stated: parseStatusFile returns a StatusFile exactly when the
\* trimmed content is a JSON object whose status is success or failure, and
\* otherwise throws with one of three messages: invalid JSON, missing status
\* field, invalid status value.
C22_ThreeParseErrors ==
    (fn = "parseStatusFile" /\ ret # <<>>) =>
        LET r == ret[1] IN
        /\ r.ok <=> WellFormed(arg)
        /\ r.ok => r.status = arg.status.v
        /\ ~r.ok =>
             /\ r.error \in {InvalidJsonMessage, MissingStatusMessage, InvalidStatusMessage}
             /\ arg.json = "invalid" => r.error = InvalidJsonMessage
             /\ (arg.json = "object" /\ arg.status = Undefined) =>
                   r.error = MissingStatusMessage
             /\ (arg.json = "object" /\ arg.status # Undefined) =>
                   r.error = InvalidStatusMessage

\* C22: parseStatusFile returns a StatusFile, with the status of the
\* content, exactly when the trimmed content is a JSON object whose status
\* is the string success or failure, and otherwise throws with the message
\* of the first condition that failed: invalid JSON, not a JSON object (null
\* or a primitive), missing status field (an array included), invalid status
\* value.
C22_ParseReportsCondition ==
    (fn = "parseStatusFile" /\ ret # <<>>) =>
        LET r == ret[1] IN
        /\ r.ok <=> WellFormed(arg)
        /\ r.ok => r.status = arg.status.v
        /\ ~r.ok =>
             /\ arg.json = "invalid" => r.error = InvalidJsonMessage
             /\ arg.json \in {"null", "number"} => r.error = NotAnObjectMessage
             /\ (arg.json = "array" \/ (arg.json = "object" /\ arg.status = Undefined)) =>
                   r.error = MissingStatusMessage
             /\ (arg.json = "object" /\ arg.status # Undefined) =>
                   r.error = InvalidStatusMessage

C22_Witness ==
    /\ fn = "parseStatusFile"
    /\ ret # <<>>
    /\ arg.pad = "bom"
    /\ arg.status = Str("failure")
    /\ ret[1].ok
    /\ ret[1].error = "boom"

\* every result pushed so far has the status success
AllSucceeded == \A t \in 1..Len(results) : results[t].status = "success"

\* C23 as stated: the process exits 0 when every executed test reported
\* success and 1 otherwise, whatever the number of tests.
C23_ExitCodeReflectsResults ==
    exitCode # <<>> => exitCode = <<IF AllSucceeded THEN 0 ELSE 1>>

\* C23: a run of the command line handler that ends without an error of its
\* own (folder missing, no authentication, discovery or report write
\* failing) exits 0 when every executed test reported success, zero
\* discovered tests included, and 1 otherwise; a run ended by such an error
\* exits 1.
C23_ExitCodeOfCompletedRun ==
    exitCode # <<>> =>
        IF cli.error # ""
        THEN exitCode = <<1>>
        ELSE exitCode = <<IF AllSucceeded THEN 0 ELSE 1>>

C23_Witness ==
    /\ exitCode = <<1>>
    /\ cli.error = ""
    /\ Len(results) = 2
    /\ results[1].status = "success"
    /\ results[2].status = "failure"

\* a usable API key is in the environment
ApiKeyPresent(e) == e.apiKey \notin {"undefined", ""}

\* a credentials file is at one of the two standard locations
SessionPresent(e) == (e.home # "" /\ "global" \in e.files) \/ "local" \in e.files

\* C24: getAuthMethod returns the API key when both sources are present and
\* preferSession is not set, the session file when both are present and
\* preferSession is set, the only source present whatever preferSession is,
\* and none when neither is present; hasBoth of a returned source is true
\* exactly when both sources are present.
C24_AuthPrecedence ==
    (fn = "getAuthMethod" /\ ret # <<>>) =>
        LET m == ret[1]
            k == ApiKeyPresent(arg)
            s == SessionPresent(arg)
            prefer == arg.preferSession = "true"
        IN  /\ (k /\ s /\ ~prefer) => m.type = "api-key"
            /\ (k /\ s /\ prefer) => m.type = "session"
            /\ (k /\ ~s) => m.type = "api-key"
            /\ (~k /\ s) => m.type = "session"
            /\ (~k /\ ~s) => m.type = "none"
            /\ m.type = "api-key" => m.apiKey = arg.apiKey
            /\ m.type = "session" =>
                  m.sessionFile = IF arg.home # "" /\ "global" \in arg.files
                                  THEN GlobalSession ELSE LocalSession
            /\ m.type # "none" => (m.hasBoth <=> (k /\ s))

C24_Witness ==
    /\ fn = "getAuthMethod"
    /\ ret # <<>>
    /\ arg.apiKey = "sk-ant-key"
    /\ arg.preferSession = "true"
    /\ ret[1].type = "session"
    /\ ret[1].hasBoth

\* C25: for an api-key method getAuthConfig returns an environment holding
\* ANTHROPIC_API_KEY and sessionFileToCopy null, for a session method an
\* environment without ANTHROPIC_API_KEY and the session file to copy, never
\* both sources; for the none method it throws.
C25_CredentialSourcesExclusive ==
    (fn = "getAuthConfig" /\ ret # <<>>) =>
        LET c == ret[1] IN
        IF arg.type = "none"
        THEN c.threw
        ELSE /\ ~c.threw
             /\ ("ANTHROPIC_API_KEY" \in DOMAIN c.env) # (c.sessionFileToCopy # "null")
             /\ arg.type = "api-key" =>
                   /\ "ANTHROPIC_API_KEY" \in DOMAIN c.env
                   /\ c.env.ANTHROPIC_API_KEY = arg.apiKey
                   /\ c.sessionFileToCopy = "null"
             /\ arg.type = "session" =>
                   /\ "ANTHROPIC_API_KEY" \notin DOMAIN c.env
                   /\ c.sessionFileToCopy = arg.sessionFile

C25_Witness ==
    /\ fn = "getAuthConfig"
    /\ ret # <<>>
    /\ arg.type = "session"
    /\ ~ret[1].threw
    /\ ret[1].sessionFileToCopy = GlobalSession

\* C26: the options runSingleTest hands to runCommand for a test mount the
\* working directory of the run, and the container path of that mount is its
\* host path.
C26_MountAtIdenticalPath ==
    \A t \in Tests :
       runOptions[t] # <<>> =>
          LET o == runOptions[t][1] IN
          /\ Len(o.mounts) = 1
          /\ o.mounts[1].hostPath = cwd
          /\ o.mounts[1].containerPath = o.mounts[1].hostPath

\* the host configuration asks for a privileged container
IsPrivileged(c) ==
    /\ "Privileged" \in DOMAIN c.HostConfig
    /\ c.HostConfig.Privileged = TRUE

\* C27: the container is created privileged exactly when the options of the
\* call enable privileged mode.
C27_PrivilegedApplied ==
    config # <<>> => (IsPrivileged(config[1]) <=> Truthy(options.privileged))

\* C28: the binds given to the runtime are exactly the mounts of the caller,
\* in order, and with no mounts no bind puts anything at
\* /var/run/docker.sock in the container.
C28_NoSocketByDefault ==
    config # <<>> =>
        LET binds == config[1].HostConfig.Binds IN
        /\ binds = [k \in 1..Len(options.mounts) |-> BindOf(options.mounts[k])]
        /\ options.mounts = <<>> =>
              \A k \in 1..Len(binds) : binds[k][2] # "/var/run/docker.sock"

\* C29: the promise of pullImage is resolved exactly when the runtime's last
\* signal is the end of progress without error, rejected exactly when it is
\* a failed pull request or progress ended by an error, pending while the
\* runtime has only handed over the stream and reported progress, and
\* resolve or reject has been called once when it is settled and never
\* before.
C29_PullSettlesOnCompletion ==
    fn = "pullImage" =>
        /\ promise = "resolved" <=> LastSignal = "finishedOk"
        /\ promise = "rejected" <=> LastSignal \in {"pullError", "finishedError"}
        /\ promise = "pending" <=> LastSignal \in {"", "stream", "progress"}
        /\ settleCalls = IF promise = "pending" THEN 0 ELSE 1

C29_Witness ==
    /\ fn = "pullImage"
    /\ promise = "resolved"
    /\ pullSignals = <<"stream", "progress", "progress", "finishedOk">>

\* C30: in a dry run no test is executed, no options are handed to
\* runCommand, no container is created and no prompt file is written, and
\* the report runTests returns has one result success with durationMs 0 per
\* discovered test, totalTests and passed the number of discovered tests and
\* failed 0.
C30_DryRunExecutesNothing ==
    ropts.dryRun =>
        /\ rcontainers = {}
        /\ ~promptFile
        /\ \A t \in Tests : exec[t] = "notStarted" /\ runOptions[t] = <<>>
        /\ report # <<>> =>
              /\ report[1].totalTests = nTests
              /\ report[1].passed = nTests
              /\ report[1].failed = 0
              /\ report[1].results =
                    [t \in 1..nTests |-> [testFile |-> t, status |-> "success",
                                          error |-> "", durationMs |-> 0]]

C30_Witness ==
    /\ ropts.dryRun
    /\ report # <<>>
    /\ nTests = 2
    /\ Len(results) = 2
    /\ rpc = "exited"
    /\ exitCode = <<0>>

\* the chunks pushed on chunkQueue so far, in the order their data events
\* arrived
Arrived == [k \in 1..Len(delivered) |-> ChunkOf(delivered[k])]

\* C33: at every point of a streaming run the chunks yielded so far are a
\* prefix of the chunks appended to the queue in arrival order, and the
\* chunks yielded followed by the chunks still queued are exactly the chunks
\* that arrived: none is yielded twice, invented, dropped or reordered.
C33_YieldedIsPrefixOfArrived ==
    mode = "streaming" =>
        /\ Len(yielded) <= Len(Arrived)
        /\ yielded = SubSeq(Arrived, 1, Len(yielded))
        /\ yielded \o chunkQueue = Arrived

C33_Witness ==
    /\ mode = "streaming"
    /\ Len(yielded) = 2
    /\ yielded[1] # yielded[2]
    /\ yielded[1].type # yielded[2].type
    /\ chunkQueue # <<>>

\* C34: the waiter slot of a live streaming call is occupied only while the
\* consumer is suspended on an empty queue; a waiter is registered only into
\* an empty slot; and a chunk arrival or an exit report that finds a waiter
\* clears the slot and wakes the consumer.
C34_SingleWaiter ==
    /\ []((resolveWaiting /\ pc # "crashed") =>
             (mode = "streaming" /\ pc = "suspended" /\ chunkQueue = <<>>))
    /\ [][(resolveWaiting' /\ pc' = "suspended" /\ pc # "suspended")
             => ~resolveWaiting]_vars
    /\ [][(resolveWaiting /\ (delivered' # delivered \/ (streamEnded' /\ ~streamEnded)))
             => (~resolveWaiting' /\ pc' = "resumed")]_vars

C34_Witness ==
    /\ mode = "streaming"
    /\ pc = "resumed"
    /\ ~resolveWaiting
    /\ streamEnded
    /\ chunkQueue = <<>>
    /\ Len(yielded) = 1

\* C35: a consumer is suspended only on an empty queue before the exit
\* report, with its resolver registered; the next chunk arrival or the exit
\* report resumes it, so that it is never left suspended with a chunk
\* queued or with the exit reported.
C35_NoLostWakeup ==
    /\ [](pc = "suspended" =>
             (resolveWaiting /\ chunkQueue = <<>> /\ ~streamEnded))
    /\ [][(pc = "suspended" /\ (delivered' # delivered \/ streamEnded'))
             => pc' = "resumed"]_vars

C35_Witness ==
    /\ mode = "streaming"
    /\ pc = "resumed"
    /\ Len(chunkQueue) = 1
    /\ ~streamEnded
    /\ ~resolveWaiting

\* C36: a streaming call whose consumer stops iterating before the sequence
\* is exhausted, with keepContainer not set, goes on to remove the container
\* it created.
C36_AbandonedRunRemoves ==
    (pc = "abandoned" /\ ShouldRemove(options)) ~> Issued("remove")

\* C40: when the creation of the container fails, the call throws that
\* error, no container exists, and createContainer is the only operation
\* the call has issued.
C40_SetupErrorAborts ==
    (Issued("create") /\ created = {}) =>
        /\ pc = "threw"
        /\ thrown = "create"
        /\ ops = <<"create">>
        /\ runtime = PreExisting

C40_Witness ==
    /\ mode = "streaming"
    /\ pc = "threw"
    /\ thrown = "create"
    /\ ops = <<"create">>
    /\ created = {}

\* C37: no status file is at the status path while the container of a test
\* is being created and started, and a status file found after runCommand
\* returned for a test was written by the container run of that test.
C37_NoStaleStatusFile ==
    /\ \A t \in Tests : exec[t] \in {"calling", "created"} => statusFile = Absent
    /\ (rpc = "awaiting" /\ exec[idx] = "returned" /\ statusFile # Absent)
          => statusBy = idx

\* C38: once runSingleTest has ended, by a result or by a thrown error,
\* neither the prompt file nor the status file is in the working directory.
C38_TemporaryFilesCleaned ==
    (rpc \in {"loop", "returned", "exited"} /\ ~ropts.dryRun) =>
        (~promptFile /\ statusFile = Absent)

\* C39: the report runTests returns outside dry-run has one result per
\* discovered test file in discovery order, totalTests is the number of
\* discovered files, passed and failed count the results with status
\* success and failure, and passed + failed = totalTests.
C39_ReportCountsAddUp ==
    (report # <<>> /\ ~ropts.dryRun) =>
        LET r == report[1] IN
        /\ Len(r.results) = nTests
        /\ \A t \in 1..nTests : r.results[t].testFile = t
        /\ r.totalTests = nTests
        /\ r.passed = Cardinality({t \in 1..nTests : r.results[t].status = "success"})
        /\ r.failed = Cardinality({t \in 1..nTests : r.results[t].status = "failure"})
        /\ r.passed + r.failed = r.totalTests

C39_Witness ==
    /\ report # <<>>
    /\ ~ropts.dryRun
    /\ nTests = 2
    /\ report[1].results[1].status = "success"
    /\ exec[2] = "threw"
    /\ callError[2] = "wait"
    /\ report[1].passed = 1
    /\ report[1].failed = 1

\* C31: whatever the text and however it is cut into chunks, the results of
\* the processChunk calls so far, one after the other, are the results of one
\* processChunk call with all the text given so far, the buffer is the
\* unterminated rest of that text, and no more lines have been formatted
\* than newlines have been received.
C31_ChunkingInvariant ==
    fn = "processChunk" =>
        LET whole == processChunk(<<>>, Concat(inputs))
            given == Concat(inputs)
        IN /\ Concat(outputs) = whole.results
           /\ buffer = whole.buffer
           /\ \A k \in 1..Len(buffer) : buffer[k] # Newline
           /\ Len(Concat(outputs)) <=
                 Cardinality({k \in 1..Len(given) : given[k] = Newline})

C31_Witness ==
    /\ fn = "processChunk"
    /\ arg = <<Open, IsError, Close, Newline>>
    /\ inputs = <<<<Open>>, <<IsError, Close>>, <<Newline>>>>
    /\ outputs = <<<<>>, <<>>, <<[color |-> "red", text |-> "Error", detail |-> <<>>]>>>>
    /\ buffer = <<>>

\* C32: a result message marked as an error (is_error true or subtype
\* error) is formatted as an error, and a result message formatted as a
\* completion is not marked as an error.
C32_ErrorNeverShownComplete ==
    (fn = "formatMessage" /\ ret # <<>> /\ arg.type = "result") =>
        LET marked == arg.is_error = "true" \/ arg.subtype = "error"
            shown == ret[1]
        IN /\ marked => (shown # <<>> /\ shown[1].text = "Error")
           /\ (shown # <<>> /\ shown[1].text = "Complete") => ~marked

====
